---- MODULE Spec2Model ----
(***************************************************************************)
(* AArch64 MMU driver (15_virtual_mem_part3_precomputed_tables,            *)
(* src/_arch/aarch64/memory/mmu.rs).                                       *)
(*                                                                         *)
(* 64-bit values (registers, addresses, sizes) are sets of bit positions:  *)
(* the value of s is the sum of 2^b for b in s.  Register fields keep the  *)
(* bit positions of the ARMv8-A architecture.  One core, one caller: the   *)
(* caller issues one call at a time and every call runs its statements in  *)
(* program order, one hardware access per step.                            *)
(***************************************************************************)
EXTENDS Integers, Sequences, FiniteSets, TLC

VARIABLES
    AS_SIZE,                \* const generic AS_SIZE of the kernel address space
    ID_AA64MMFR0_EL1,       \* read-only feature register
    SCTLR_EL1, MAIR_EL1, TTBR0_EL1, TCR_EL1, PAR_EL1,
    pc,                     \* position of the caller
    phys_tables_base_addr,  \* argument of enable_mmu_and_caching
    addr,                   \* local of try_virt_to_phys (virt as u64)
    par_el1,                \* local of try_virt_to_phys (PAR_EL1.extract())
    call,                   \* operation running or last run
    ret,                    \* value returned by the last finished call
    events,                 \* hardware accesses of the call, in program order
    entry,                  \* registers as they were when the call started
    hist                    \* what enable_mmu_and_caching has returned so far

vars == <<AS_SIZE, ID_AA64MMFR0_EL1, SCTLR_EL1, MAIR_EL1, TTBR0_EL1, TCR_EL1,
          PAR_EL1, pc, phys_tables_base_addr, addr, par_el1, call, ret,
          events, entry, hist>>

----------------------------------------------------------------------------
(* u64 arithmetic on sets of bit positions                                 *)

Bit == 0 .. 63

Range(lo, n) == lo .. (lo + n - 1)

\* the bits of a number below 2^31
BitsOf(n) == {i \in 0 .. 30 : (n \div (2 ^ i)) % 2 = 1}

\* the number a set of bit positions below 31 stands for
RECURSIVE ToNat(_)
ToNat(s) == IF s = {} THEN 0
            ELSE LET b == CHOOSE x \in s : TRUE IN (2 ^ b) + ToNat(s \ {b})

Shl(s, n) == {b + n : b \in {x \in s : x + n <= 63}}
Shr(s, n) == {b - n : b \in {x \in s : x >= n}}
And(a, b) == a \cap b
Or(a, b) == a \cup b
Xor(a, b) == (a \ b) \cup (b \ a)
MaxBit(s) == CHOOSE b \in s : \A c \in s : c <= b
MinBit(s) == CHOOSE b \in s : \A c \in s : b <= c

\* wrapping u64 addition (ripple carry)
RECURSIVE Add(_, _)
Add(a, b) == IF b = {} THEN a ELSE Add(Xor(a, b), Shl(And(a, b), 1))

\* a <= b
Leq(a, b) == a = b \/ MaxBit(Xor(a, b)) \in b

\* a % d for a power of two d
Rem(a, d) == {b \in a : b < MinBit(d)}

----------------------------------------------------------------------------
(* register fields: a field value is a mask and the bits set under it      *)

FieldVal(offset, numbits, v) ==
    [mask |-> Range(offset, numbits),
     value |-> Shl(And(BitsOf(v), Range(0, numbits)), offset)]

Plus(f, g) == [mask |-> f.mask \cup g.mask, value |-> f.value \cup g.value]

matches_all(reg, f) == And(reg, f.mask) = f.value
write(f) == f.value
modify(reg, f) == Or(reg \ f.mask, f.value)
read(reg, offset, numbits) == Shr(And(reg, Range(offset, numbits)), offset)

----------------------------------------------------------------------------
(* register layout used by the driver                                      *)

SCTLR_EL1_M_Enable == FieldVal(0, 1, 1)
SCTLR_EL1_C_Cacheable == FieldVal(2, 1, 1)
SCTLR_EL1_I_Cacheable == FieldVal(12, 1, 1)

\* variant: the TGran4 field is tested instead of TGran64
ID_AA64MMFR0_EL1_TGran4_Supported == FieldVal(28, 4, 0)

ID_AA64MMFR0_EL1_TGran64_Supported == FieldVal(24, 4, 0)

MAIR_EL1_Attr1_Normal_Outer == FieldVal(12, 4, 15)
MAIR_EL1_Attr1_Normal_Inner == FieldVal(8, 4, 15)
\* variant: Device-nGnRnE, the all-zero encoding, is programmed
MAIR_EL1_Attr0_Device_nGnRnE == FieldVal(0, 8, 0)

MAIR_EL1_Attr0_Device == FieldVal(0, 8, 4)

TCR_EL1_TBI0_Used == FieldVal(37, 1, 0)
TCR_EL1_IPS_Bits_40 == FieldVal(32, 3, 2)
\* variant: the TG1 encoding of 64 KiB is used for TG0, which selects 16 KiB
TCR_EL1_TG0_KiB_16 == FieldVal(14, 2, 2)

TCR_EL1_TG0_KiB_64 == FieldVal(14, 2, 1)
TCR_EL1_SH0_Inner == FieldVal(12, 2, 3)
TCR_EL1_ORGN0_WriteBack == FieldVal(10, 2, 1)
TCR_EL1_IRGN0_WriteBack == FieldVal(8, 2, 1)
TCR_EL1_EPD0_EnableTTBR0Walks == FieldVal(7, 1, 0)
TCR_EL1_A1_TTBR0 == FieldVal(22, 1, 0)
\* variant: the field is taken to be five bits wide
TCR_EL1_T0SZ_5bit(v) == FieldVal(0, 5, v)

TCR_EL1_T0SZ(v) == FieldVal(0, 6, v)
TCR_EL1_EPD1_DisableTTBR1Walks == FieldVal(23, 1, 1)

\* variant: the abort flag is looked for one bit too high
PAR_EL1_F_WrongBit == FieldVal(1, 1, 1)

PAR_EL1_F_TranslationAborted == FieldVal(0, 1, 1)
PAR_EL1_PA == <<12, 36>>

TTBR0_EL1_BADDR == <<1, 47>>

----------------------------------------------------------------------------
(* compile-time items                                                      *)

Granule512MiB_SIZE == BitsOf(512 * 1024 * 1024)
Granule64KiB_SIZE == BitsOf(64 * 1024)

mair_DEVICE == 0
mair_NORMAL == 1

\* variant: the upper limit is exclusive
sanity_checks_exclusive_limit(S) ==
    /\ Rem(S, Granule512MiB_SIZE) = {}
    /\ S # Shl(BitsOf(1), 48)
    /\ Leq(S, Shl(BitsOf(1), 48))

\* the two assertions of the const fn; TRUE when both pass
arch_address_space_size_sanity_checks(S) ==
    /\ Rem(S, Granule512MiB_SIZE) = {}
    /\ Leq(S, Shl(BitsOf(1), 48))

\* KernelVirtAddrSpace::SIZE_SHIFT, the binary logarithm of the size
SIZE_SHIFT(S) == IF S = {} THEN 64 ELSE MinBit(S)

----------------------------------------------------------------------------
(* values the driver computes                                              *)

\* variant: the alignment-check bit A is tested instead of M
is_enabled_wrong_bit == matches_all(SCTLR_EL1, FieldVal(1, 1, 1))

is_enabled == matches_all(SCTLR_EL1, SCTLR_EL1_M_Enable)

set_up_mair ==
    write(Plus(Plus(MAIR_EL1_Attr1_Normal_Outer, MAIR_EL1_Attr1_Normal_Inner),
               MAIR_EL1_Attr0_Device))

\* variant: the address is put into BADDR without the shift by one
set_baddr_unshifted(a) ==
    Shl(And(a, Range(0, TTBR0_EL1_BADDR[2])), TTBR0_EL1_BADDR[1])

set_baddr(a) ==
    Shl(And(Shr(a, 1), Range(0, TTBR0_EL1_BADDR[2])), TTBR0_EL1_BADDR[1])

get_baddr(ttbr) == Shl(read(ttbr, TTBR0_EL1_BADDR[1], TTBR0_EL1_BADDR[2]), 1)

configure_translation_control ==
    LET t0sz == 64 - SIZE_SHIFT(AS_SIZE)
    IN  write(Plus(TCR_EL1_TBI0_Used,
              Plus(TCR_EL1_IPS_Bits_40,
              Plus(TCR_EL1_TG0_KiB_64,
              Plus(TCR_EL1_SH0_Inner,
              Plus(TCR_EL1_ORGN0_WriteBack,
              Plus(TCR_EL1_IRGN0_WriteBack,
              Plus(TCR_EL1_EPD0_EnableTTBR0Walks,
              Plus(TCR_EL1_A1_TTBR0,
              Plus(TCR_EL1_T0SZ(t0sz),
                   TCR_EL1_EPD1_DisableTTBR1Walks))))))))))

\* variant: the instruction cache is left off
sctlr_enable_without_I ==
    modify(SCTLR_EL1, Plus(SCTLR_EL1_M_Enable, SCTLR_EL1_C_Cacheable))

\* variant: the register is written, not modified
sctlr_enable_by_write ==
    write(Plus(SCTLR_EL1_M_Enable,
          Plus(SCTLR_EL1_C_Cacheable, SCTLR_EL1_I_Cacheable)))

\* variant: only the caches are switched on
sctlr_enable_caches_only ==
    modify(SCTLR_EL1, Plus(SCTLR_EL1_C_Cacheable, SCTLR_EL1_I_Cacheable))

sctlr_enable ==
    modify(SCTLR_EL1, Plus(SCTLR_EL1_M_Enable,
                      Plus(SCTLR_EL1_C_Cacheable, SCTLR_EL1_I_Cacheable)))

\* variant: PA is taken for a 64 KiB frame number
phys_addr_shift16(par, a) ==
    Or(Shl(read(par, PAR_EL1_PA[1], PAR_EL1_PA[2]), 16), And(a, BitsOf(4095)))

\* (par_el1.read(PAR_EL1::PA) << 12) | (addr & 0xFFF)
phys_addr(par, a) ==
    Or(Shl(read(par, PAR_EL1_PA[1], PAR_EL1_PA[2]), 12), And(a, BitsOf(4095)))

----------------------------------------------------------------------------
(* the hardware and the callers' inputs                                    *)

Base1 == BitsOf(589824)
Base2 == BitsOf(1048576)
Base3 == BitsOf(2097152)
TableBases == {Base1, Base2, Base3}

\* the 64 KiB pages <<V, P>> mapped by the table hierarchy found at a base
\* address; nothing is mapped at Base3
PageTable(base) ==
    IF base = Base1
    THEN {<<{}, BitsOf(524288)>>,
          <<{16}, BitsOf(1059061760)>>,
          <<Range(16, 13), Range(16, 24)>>}
    ELSE IF base = Base2
    THEN {<<{}, {}>>, <<{16}, {17}>>}
    ELSE {}

PageOf(a) == a \ Range(0, 16)
OffsetOf(a) == And(a, Range(0, 16))

\* PAR_EL1 after AT S1E1R: on success PA holds bits [47:12] of the output
\* address, with the attribute fields and RES1 bit 11 set; on a fault F and
\* the fault status code are set
AT_S1E1R(ttbr, a) ==
    LET hits == {m \in PageTable(get_baddr(ttbr)) : m[1] = PageOf(a)}
    IN  IF hits # {}
        THEN LET P == (CHOOSE m \in hits : TRUE)[2]
             IN  Or(And(Or(P, OffsetOf(a)), Range(12, 36)),
                    {7, 8, 11} \cup Range(56, 8))
        ELSE {0, 2, 3, 11}

Pages == {{}, {16}, Range(16, 13), {30}}
Offsets == {{}, BitsOf(4095), {12}, Range(0, 16)}
VirtAddrs == {Add(V, k) : V \in Pages, k \in Offsets} \cup {Bit}

AsSizes == {{}, {29}, {30}, {29, 30}, {48}, {29, 48}, {28}, {0, 29}, {49}, Bit}

IdRegs == {{1}, {1} \cup Range(24, 4), {1, 24}}

\* register contents the core may hold when the kernel starts: translation
\* and caches are off, everything else is not defined by the driver
ResetImages ==
    {[sctlr |-> {}, mair |-> {}, ttbr |-> {}, tcr |-> {}, par |-> {}],
     [sctlr |-> {11, 20, 22, 23, 28, 29}, mair |-> {0, 18, 63},
      ttbr |-> {0, 20, 50}, tcr |-> {1, 7, 22, 37, 40},
      par |-> {11, 20, 33, 60}]}

NoRet == [tag |-> "none", val |-> {}]

Init ==
    /\ AS_SIZE \in AsSizes
    /\ ID_AA64MMFR0_EL1 \in IdRegs
    /\ \E img \in ResetImages :
        /\ SCTLR_EL1 = img.sctlr
        /\ MAIR_EL1 = img.mair
        /\ TTBR0_EL1 = img.ttbr
        /\ TCR_EL1 = img.tcr
        /\ PAR_EL1 = img.par
        /\ entry = <<img.sctlr, img.mair, img.ttbr, img.tcr, img.par>>
    /\ pc = "build"
    /\ phys_tables_base_addr = {}
    /\ addr = {}
    /\ par_el1 = {}
    /\ call = "none"
    /\ ret = NoRet
    /\ events = <<>>
    /\ hist = [ok |-> FALSE, base |-> {}, err |-> "none", errBase |-> {},
               between |-> FALSE, retried |-> FALSE]

regs == <<SCTLR_EL1, MAIR_EL1, TTBR0_EL1, TCR_EL1, PAR_EL1>>
fixed == <<AS_SIZE, ID_AA64MMFR0_EL1>>

\* the history after enable_mmu_and_caching(base) returns tag: the base of
\* the call that returned Ok, the first failure and its base, and whether a
\* call was made again after a failure
Returned(tag, base) ==
    LET h == IF hist.err = "none" THEN hist ELSE [hist EXCEPT !.retried = TRUE]
    IN  IF tag = "Ok"
        THEN [h EXCEPT !.ok = TRUE, !.base = base]
        ELSE IF hist.err = "none"
             THEN [h EXCEPT !.err = tag, !.errBase = base]
             ELSE h

\* the history after a call of is_enabled or try_virt_to_phys
Observed ==
    IF hist.err = "none" THEN hist ELSE [hist EXCEPT !.between = TRUE]

----------------------------------------------------------------------------
(* const evaluation of the address space                                   *)

Build ==
    /\ pc = "build"
    /\ pc' = IF arch_address_space_size_sanity_checks(AS_SIZE)
             THEN "idle" ELSE "build_failed"
    /\ UNCHANGED <<fixed, regs, phys_tables_base_addr, addr, par_el1, call,
                   ret, events, entry, hist>>

----------------------------------------------------------------------------
(* enable_mmu_and_caching                                                  *)

\* variant: the early return for an enabled MMU is missing
enable_without_enabled_check(base) ==
    /\ pc = "idle"
    /\ call' = "enable_mmu_and_caching"
    /\ phys_tables_base_addr' = base
    /\ entry' = regs
    /\ events' = <<"R_SCTLR">>
    /\ ret' = NoRet
    /\ hist' = hist
    /\ pc' = "enable_granule"
    /\ UNCHANGED <<fixed, regs, addr, par_el1>>

enable_check_enabled(base) ==
    /\ pc = "idle"
    /\ call' = "enable_mmu_and_caching"
    /\ phys_tables_base_addr' = base
    /\ entry' = regs
    /\ events' = <<"R_SCTLR">>
    /\ IF is_enabled
       THEN /\ ret' = [tag |-> "AlreadyEnabled", val |-> {}]
            /\ hist' = Returned("AlreadyEnabled", base)
            /\ pc' = "idle"
       ELSE /\ ret' = NoRet
            /\ hist' = hist
            /\ pc' = "enable_granule"
    /\ UNCHANGED <<fixed, regs, addr, par_el1>>

\* variant: the granule is checked only after the MMU was switched on
enable_check_granule_late ==
    /\ pc = "enable_granule"
    /\ events' = Append(events, "R_ID_AA64MMFR0")
    /\ IF ~matches_all(ID_AA64MMFR0_EL1, ID_AA64MMFR0_EL1_TGran64_Supported)
       THEN /\ SCTLR_EL1' = sctlr_enable
            /\ ret' = [tag |-> "Other", val |-> {}]
            /\ hist' = Returned("Other", phys_tables_base_addr)
            /\ pc' = "idle"
       ELSE /\ SCTLR_EL1' = SCTLR_EL1
            /\ ret' = ret
            /\ hist' = hist
            /\ pc' = "enable_mair"
    /\ UNCHANGED <<fixed, MAIR_EL1, TTBR0_EL1, TCR_EL1, PAR_EL1,
                   phys_tables_base_addr, addr, par_el1, call, entry>>

enable_check_granule ==
    /\ pc = "enable_granule"
    /\ events' = Append(events, "R_ID_AA64MMFR0")
    /\ IF ~matches_all(ID_AA64MMFR0_EL1, ID_AA64MMFR0_EL1_TGran64_Supported)
       THEN /\ ret' = [tag |-> "Other", val |-> {}]
            /\ hist' = Returned("Other", phys_tables_base_addr)
            /\ pc' = "idle"
       ELSE /\ ret' = ret
            /\ hist' = hist
            /\ pc' = "enable_mair"
    /\ UNCHANGED <<fixed, regs, phys_tables_base_addr, addr, par_el1, call,
                   entry>>

enable_set_up_mair ==
    /\ pc = "enable_mair"
    /\ MAIR_EL1' = set_up_mair
    /\ events' = Append(events, "W_MAIR")
    /\ pc' = "enable_ttbr0"
    /\ UNCHANGED <<fixed, SCTLR_EL1, TTBR0_EL1, TCR_EL1, PAR_EL1,
                   phys_tables_base_addr, addr, par_el1, call, ret, entry,
                   hist>>

enable_set_baddr ==
    /\ pc = "enable_ttbr0"
    /\ TTBR0_EL1' = set_baddr(phys_tables_base_addr)
    /\ events' = Append(events, "W_TTBR0")
    /\ pc' = "enable_tcr"
    /\ UNCHANGED <<fixed, SCTLR_EL1, MAIR_EL1, TCR_EL1, PAR_EL1,
                   phys_tables_base_addr, addr, par_el1, call, ret, entry,
                   hist>>

enable_configure_translation_control ==
    /\ pc = "enable_tcr"
    /\ TCR_EL1' = configure_translation_control
    /\ events' = Append(events, "W_TCR")
    /\ pc' = "enable_isb1"
    /\ UNCHANGED <<fixed, SCTLR_EL1, MAIR_EL1, TTBR0_EL1, PAR_EL1,
                   phys_tables_base_addr, addr, par_el1, call, ret, entry,
                   hist>>

\* variant: the barrier before the enable is missing
enable_isb1_missing ==
    /\ pc = "enable_isb1"
    /\ pc' = "enable_sctlr"
    /\ UNCHANGED <<fixed, regs, phys_tables_base_addr, addr, par_el1, call,
                   ret, events, entry, hist>>

enable_isb1 ==
    /\ pc = "enable_isb1"
    /\ events' = Append(events, "ISB")
    /\ pc' = "enable_sctlr"
    /\ UNCHANGED <<fixed, regs, phys_tables_base_addr, addr, par_el1, call,
                   ret, entry, hist>>

enable_sctlr_modify ==
    /\ pc = "enable_sctlr"
    /\ SCTLR_EL1' = sctlr_enable
    /\ events' = events \o <<"R_SCTLR", "W_SCTLR">>
    /\ pc' = "enable_isb2"
    /\ UNCHANGED <<fixed, MAIR_EL1, TTBR0_EL1, TCR_EL1, PAR_EL1,
                   phys_tables_base_addr, addr, par_el1, call, ret, entry,
                   hist>>

enable_isb2 ==
    /\ pc = "enable_isb2"
    /\ events' = Append(events, "ISB")
    /\ pc' = "enable_ok"
    /\ UNCHANGED <<fixed, regs, phys_tables_base_addr, addr, par_el1, call,
                   ret, entry, hist>>

enable_return_ok ==
    /\ pc = "enable_ok"
    /\ ret' = [tag |-> "Ok", val |-> {}]
    /\ hist' = Returned("Ok", phys_tables_base_addr)
    /\ pc' = "idle"
    /\ UNCHANGED <<fixed, regs, phys_tables_base_addr, addr, par_el1, call,
                   events, entry>>

----------------------------------------------------------------------------
(* is_enabled, called by the kernel                                        *)

\* variant: the bit is set while it is tested
call_is_enabled_modifying ==
    /\ pc = "idle"
    /\ call' = "is_enabled"
    /\ entry' = regs
    /\ events' = <<"R_SCTLR">>
    /\ ret' = [tag |-> IF is_enabled THEN "true" ELSE "false", val |-> {}]
    /\ SCTLR_EL1' = modify(SCTLR_EL1, SCTLR_EL1_M_Enable)
    /\ pc' = "idle"
    /\ hist' = Observed
    /\ UNCHANGED <<fixed, MAIR_EL1, TTBR0_EL1, TCR_EL1, PAR_EL1,
                   phys_tables_base_addr, addr, par_el1>>

call_is_enabled ==
    /\ pc = "idle"
    /\ call' = "is_enabled"
    /\ entry' = regs
    /\ events' = <<"R_SCTLR">>
    /\ ret' = [tag |-> IF is_enabled THEN "true" ELSE "false", val |-> {}]
    /\ pc' = "idle"
    /\ hist' = Observed
    /\ UNCHANGED <<fixed, regs, phys_tables_base_addr, addr, par_el1>>

----------------------------------------------------------------------------
(* try_virt_to_phys                                                        *)

\* variant: the translation is attempted whatever the state of the MMU
translate_without_enabled_check(virt) ==
    /\ pc = "idle"
    /\ call' = "try_virt_to_phys"
    /\ addr' = virt
    /\ entry' = regs
    /\ events' = <<"R_SCTLR">>
    /\ ret' = NoRet
    /\ pc' = "translate_at"
    /\ hist' = Observed
    /\ UNCHANGED <<fixed, regs, phys_tables_base_addr, par_el1>>

translate_check_enabled(virt) ==
    /\ pc = "idle"
    /\ call' = "try_virt_to_phys"
    /\ addr' = virt
    /\ entry' = regs
    /\ events' = <<"R_SCTLR">>
    /\ IF ~is_enabled
       THEN /\ ret' = [tag |-> "MMUDisabled", val |-> {}]
            /\ pc' = "idle"
       ELSE /\ ret' = NoRet
            /\ pc' = "translate_at"
    /\ hist' = Observed
    /\ UNCHANGED <<fixed, regs, phys_tables_base_addr, par_el1>>

translate_at ==
    /\ pc = "translate_at"
    /\ PAR_EL1' = AT_S1E1R(TTBR0_EL1, addr)
    /\ events' = Append(events, "AT")
    /\ pc' = "translate_par"
    /\ UNCHANGED <<fixed, SCTLR_EL1, MAIR_EL1, TTBR0_EL1, TCR_EL1,
                   phys_tables_base_addr, addr, par_el1, call, ret, entry,
                   hist>>

translate_extract_par ==
    /\ pc = "translate_par"
    /\ par_el1' = PAR_EL1
    /\ events' = Append(events, "R_PAR")
    /\ IF matches_all(PAR_EL1, PAR_EL1_F_TranslationAborted)
       THEN /\ ret' = [tag |-> "Aborted", val |-> {}]
            /\ pc' = "idle"
       ELSE /\ ret' = ret
            /\ pc' = "translate_ok"
    /\ UNCHANGED <<fixed, regs, phys_tables_base_addr, addr, call, entry,
                   hist>>

translate_return_ok ==
    /\ pc = "translate_ok"
    /\ ret' = [tag |-> "Ok", val |-> phys_addr(par_el1, addr)]
    /\ pc' = "idle"
    /\ UNCHANGED <<fixed, regs, phys_tables_base_addr, addr, par_el1, call,
                   events, entry, hist>>

----------------------------------------------------------------------------

Next ==
    \/ Build
    \/ \E base \in TableBases : enable_check_enabled(base)
    \/ enable_check_granule
    \/ enable_set_up_mair
    \/ enable_set_baddr
    \/ enable_configure_translation_control
    \/ enable_isb1
    \/ enable_sctlr_modify
    \/ enable_isb2
    \/ enable_return_ok
    \/ call_is_enabled
    \/ \E virt \in VirtAddrs : translate_check_enabled(virt)
    \/ translate_at
    \/ translate_extract_par
    \/ translate_return_ok

Spec == Init /\ [][Next]_vars

----------------------------------------------------------------------------
(* the same core with code that preempts the driver.  Nothing in            *)
(* try_virt_to_phys masks exceptions, so a handler can run between the AT   *)
(* instruction and the read of PAR_EL1 and issue an AT of its own.  PAR_EL1 *)
(* is read only there, and translate_at overwrites it, so this is the one   *)
(* place where the handler's AT can reach the driver.                       *)
(* One run of the handler per call is modelled: a further run only          *)
(* overwrites PAR_EL1 once more.                                            *)

preempt_at(virt) ==
    /\ pc = "translate_par"
    /\ "IRQ_AT" \notin {events[i] : i \in 1 .. Len(events)}
    /\ PAR_EL1' = AT_S1E1R(TTBR0_EL1, virt)
    /\ events' = Append(events, "IRQ_AT")
    /\ UNCHANGED <<fixed, SCTLR_EL1, MAIR_EL1, TTBR0_EL1, TCR_EL1, pc,
                   phys_tables_base_addr, addr, par_el1, call, ret, entry,
                   hist>>

NextPreempt ==
    \/ Next
    \/ \E virt \in VirtAddrs : preempt_at(virt)

SpecPreempt == Init /\ [][NextPreempt]_vars

TypeOK ==
    /\ AS_SIZE \subseteq Bit
    /\ \A r \in {SCTLR_EL1, MAIR_EL1, TTBR0_EL1, TCR_EL1, PAR_EL1} :
          r \subseteq Bit
    /\ ret.val \subseteq Bit

----------------------------------------------------------------------------
(* properties                                                              *)

M_BIT == 0
EnabledIn(snapshot) == M_BIT \in snapshot[1]
GranuleUnsupported == read(ID_AA64MMFR0_EL1, 24, 4) # {}

IsEffect(e) == e \in {"W_MAIR", "W_TTBR0", "W_TCR", "ISB", "W_SCTLR", "AT"}
Effects == SelectSeq(events, IsEffect)
IsPrefix(p, q) == Len(p) <= Len(q) /\ p = SubSeq(q, 1, Len(p))

\* C1: enable_mmu_and_caching called with the M bit set returns
\* Err(AlreadyEnabled) at once; MAIR_EL1, TTBR0_EL1, TCR_EL1, SCTLR_EL1 (and
\* PAR_EL1) are as they were at the call, whatever table base was supplied,
\* and nothing but the read of SCTLR_EL1 was done: no write, no barrier.
C1_AlreadyEnabledNoEffect ==
    (call = "enable_mmu_and_caching" /\ EnabledIn(entry)) =>
        /\ pc = "idle"
        /\ ret = [tag |-> "AlreadyEnabled", val |-> {}]
        /\ regs = entry
        /\ events = <<"R_SCTLR">>

C1_Witness ==
    /\ call = "enable_mmu_and_caching"
    /\ EnabledIn(entry)
    /\ ret.tag = "AlreadyEnabled"
    /\ hist.ok
    /\ phys_tables_base_addr # hist.base

\* C2: enable_mmu_and_caching called with the MMU disabled on a core whose
\* ID_AA64MMFR0_EL1.TGran64 is not "supported" returns Err(Other) after the
\* feature check: no register is written, no barrier is emitted and the MMU
\* stays disabled.
C2_GranuleUnsupportedNoEffect ==
    (call = "enable_mmu_and_caching" /\ ~EnabledIn(entry)
        /\ GranuleUnsupported) =>
        /\ pc \in {"enable_granule", "idle"}
        /\ pc = "idle" => ret = [tag |-> "Other", val |-> {}]
        /\ regs = entry
        /\ Effects = <<>>
        /\ M_BIT \notin SCTLR_EL1

C2_Witness ==
    /\ call = "enable_mmu_and_caching"
    /\ pc = "idle"
    /\ GranuleUnsupported
    /\ ret.tag = "Other"
    /\ events = <<"R_SCTLR", "R_ID_AA64MMFR0">>

EnableOrder == <<"W_MAIR", "W_TTBR0", "W_TCR", "ISB", "W_SCTLR", "ISB">>

\* C3: the writes and barriers of an enable_mmu_and_caching call are always
\* a prefix of: write MAIR_EL1, write TTBR0_EL1, write TCR_EL1, ISB, set
\* M/C/I in SCTLR_EL1, ISB.  The M bit is set by the call only once the
\* three writes and the first ISB have happened, and Ok is returned only
\* after the whole sequence, second ISB included.
C3_EnableOrder ==
    call = "enable_mmu_and_caching" =>
        /\ IsPrefix(Effects, EnableOrder)
        /\ (~EnabledIn(entry) /\ M_BIT \in SCTLR_EL1) => Len(Effects) >= 5
        /\ (~EnabledIn(entry) /\ M_BIT \notin SCTLR_EL1) => Len(Effects) <= 4
        /\ (pc = "enable_ok" \/ ret.tag = "Ok") => Effects = EnableOrder

C3_Witness ==
    /\ call = "enable_mmu_and_caching"
    /\ pc = "idle"
    /\ ret.tag = "Ok"
    /\ Effects = EnableOrder

\* C4: the M bit, once set, is never cleared by any step of any call; it
\* goes from clear to set only in the SCTLR_EL1 update of an
\* enable_mmu_and_caching call, and that call returns Ok: enabled means an
\* enable has returned Ok or is between its SCTLR_EL1 update and its return.
C4_TwoStates ==
    [][/\ (M_BIT \in SCTLR_EL1) => (M_BIT \in SCTLR_EL1')
       /\ (M_BIT \notin SCTLR_EL1 /\ M_BIT \in SCTLR_EL1') =>
              (call = "enable_mmu_and_caching" /\ pc = "enable_sctlr"
                  /\ ~hist.ok)
       /\ (M_BIT \in SCTLR_EL1) <=>
              (hist.ok \/ pc \in {"enable_isb2", "enable_ok"})]_vars

C4_Witness ==
    /\ M_BIT \in SCTLR_EL1
    /\ pc = "idle"
    /\ call = "try_virt_to_phys"
    /\ ret.tag = "Aborted"
    /\ hist.err = "AlreadyEnabled"

\* C5: is_enabled returns false as long as no enable_mmu_and_caching has
\* returned Ok, failed enable calls included, and true ever after one has.
C5_IsEnabledResult ==
    (pc = "idle" /\ call = "is_enabled") =>
        ret.tag = (IF hist.ok THEN "true" ELSE "false")

C5_Witness ==
    /\ pc = "idle"
    /\ call = "is_enabled"
    /\ hist.ok
    /\ ret.tag = "true"

\* C6: try_virt_to_phys called with the MMU not enabled returns
\* Err(MMUDisabled) for every address; AT S1E1R is not issued and PAR_EL1 is
\* neither read nor changed.
C6_TranslateDisabled ==
    (call = "try_virt_to_phys" /\ ~EnabledIn(entry)) =>
        /\ pc = "idle"
        /\ ret = [tag |-> "MMUDisabled", val |-> {}]
        /\ events = <<"R_SCTLR">>
        /\ regs = entry

C6_Witness ==
    /\ call = "try_virt_to_phys"
    /\ ret.tag = "MMUDisabled"
    /\ addr = Bit
    /\ entry[5] # {}

\* C7: once enable_mmu_and_caching(base) has returned Ok and the table at
\* base maps the 64 KiB page V to P, try_virt_to_phys(V + k) returns
\* Ok(P + k) for the offsets k below 64 KiB (k = 0 included); an Ok result
\* is bits [47:12] of PAR_EL1 with the low 12 bits of the virtual address.
C7_TranslateMapped ==
    (pc = "idle" /\ call = "try_virt_to_phys" /\ hist.ok) =>
        /\ \A m \in PageTable(hist.base) : \A k \in Offsets :
              (Leq(k, Range(0, 16)) /\ addr = Add(m[1], k)) =>
                  ret = [tag |-> "Ok", val |-> Add(m[2], k)]
        /\ ret.tag = "Ok" =>
              ret.val = (PAR_EL1 \cap (12 .. 47)) \cup (addr \cap (0 .. 11))

C7_Witness ==
    /\ pc = "idle"
    /\ call = "try_virt_to_phys"
    /\ hist.ok
    /\ hist.base = Base1
    /\ addr = Add(Range(16, 13), Range(0, 16))
    /\ ret = [tag |-> "Ok", val |-> Range(0, 40)]

\* C8: with the MMU enabled, a try_virt_to_phys whose translation aborted
\* (PAR_EL1.F set, as for an address the table does not map) returns
\* Err(Aborted) and no address; Ok is returned only with F clear.
C8_TranslateAborted ==
    (call = "try_virt_to_phys" /\ EnabledIn(entry)) =>
        /\ (pc = "idle" /\ 0 \in PAR_EL1) =>
              ret = [tag |-> "Aborted", val |-> {}]
        /\ (pc = "idle"
              /\ \A m \in PageTable(hist.base) : m[1] # PageOf(addr)) =>
              ret.tag = "Aborted"
        /\ (pc = "translate_ok" \/ ret.tag = "Ok") => 0 \notin PAR_EL1

C8_Witness ==
    /\ call = "try_virt_to_phys"
    /\ pc = "idle"
    /\ EnabledIn(entry)
    /\ hist.base = Base1
    /\ addr = Add({30}, {12})
    /\ 0 \in PAR_EL1
    /\ ret.tag = "Aborted"

\* C9: every enable_mmu_and_caching that returns after an earlier one failed
\* returns that same failure (AlreadyEnabled or Other), whatever table base
\* it is given and whatever is_enabled and try_virt_to_phys calls were made
\* in between.
C9_RetrySameFailure ==
    (pc = "idle" /\ call = "enable_mmu_and_caching" /\ hist.err # "none") =>
        /\ ret.tag = hist.err
        /\ hist.err \in {"AlreadyEnabled", "Other"}
        /\ hist.err = "AlreadyEnabled" <=> hist.ok

C9_Witness ==
    /\ pc = "idle"
    /\ call = "enable_mmu_and_caching"
    /\ hist.err = "Other"
    /\ hist.retried
    /\ hist.between
    /\ phys_tables_base_addr # hist.errBase
    /\ ret.tag = "Other"

\* AS_SIZE is a multiple of 512 MiB and at most 2^48
ValidSize(S) ==
    /\ \A b \in S : b >= 29
    /\ S = {48} \/ \A b \in S : b < 48

C11_T0SZ ==
    hist.ok =>
        /\ ToNat(read(TCR_EL1, 0, 6)) = 64 - SIZE_SHIFT(AS_SIZE)
        /\ 64 - SIZE_SHIFT(AS_SIZE) \in 0 .. 63
        /\ AS_SIZE = {29} => read(TCR_EL1, 0, 6) = BitsOf(35)
        /\ AS_SIZE = {30} => read(TCR_EL1, 0, 6) = BitsOf(34)
        /\ AS_SIZE = {48} => read(TCR_EL1, 0, 6) = BitsOf(16)

C11_Witness ==
    /\ hist.ok
    /\ AS_SIZE = {30}
    /\ read(TCR_EL1, 0, 6) = {1, 5}
    /\ entry[4] # {}

\* C12: in every state with the M bit set, MAIR_EL1 attribute slot
\* mair::DEVICE = 0 is Device-nGnRE (0x04) and slot mair::NORMAL = 1 is Normal
\* write-back read/write-allocate, inner and outer (0xFF), for every
\* address-space size and every enable call.
C12_MairSlots ==
    M_BIT \in SCTLR_EL1 =>
        /\ mair_DEVICE = 0 /\ mair_NORMAL = 1
        /\ read(MAIR_EL1, 8 * mair_DEVICE, 8) = {2}
        /\ read(MAIR_EL1, 8 * mair_NORMAL, 8) = 0 .. 7

C12_Witness ==
    /\ M_BIT \in SCTLR_EL1
    /\ AS_SIZE = {48}
    /\ hist.base = Base2
    /\ hist.err = "AlreadyEnabled"
    /\ hist.retried

\* C13: the M, C and I bits of SCTLR_EL1, all clear at the start, are in
\* every state either all clear or all set: translation is never on with a
\* cache off.
C13_AtomicEnable ==
    (SCTLR_EL1 \cap {0, 2, 12}) \in {{}, {0, 2, 12}}

C13_Witness ==
    /\ pc = "enable_isb2"
    /\ {0, 2, 12} \subseteq SCTLR_EL1
    /\ {0, 2, 12} \cap entry[1] = {}

\* C14: a successful try_virt_to_phys(V) returns the translation of V: the
\* output page the installed table gives for the page of V, with the offset
\* of V, also when other code on the core runs between the AT instruction
\* and the read of PAR_EL1.
C14_AtomicTranslate ==
    (pc = "idle" /\ call = "try_virt_to_phys" /\ ret.tag = "Ok") =>
        \E m \in PageTable(get_baddr(TTBR0_EL1)) :
            /\ m[1] = PageOf(addr)
            /\ ret.val = Or(m[2], OffsetOf(addr))

\* C15: is_enabled changes no register (MAIR_EL1, TTBR0_EL1, TCR_EL1,
\* SCTLR_EL1, PAR_EL1), does nothing but read SCTLR_EL1, and returns the
\* value of the M bit, with the MMU disabled or enabled.
C15_IsEnabledPure ==
    (pc = "idle" /\ call = "is_enabled") =>
        /\ regs = entry
        /\ events = <<"R_SCTLR">>
        /\ ret = [tag |-> IF M_BIT \in SCTLR_EL1 THEN "true" ELSE "false",
                  val |-> {}]

C15_Witness ==
    /\ pc = "idle"
    /\ call = "is_enabled"
    /\ ret.tag = "false"
    /\ SCTLR_EL1 # {}
    /\ hist.err = "Other"
    /\ hist.between

\* C16: every AS_SIZE the sanity checks let through to run time is at least
\* 512 MiB.
C16_AtLeastOneTable ==
    pc \notin {"build", "build_failed"} => Leq({29}, AS_SIZE)

\* C17: in every state with the M bit set, TCR_EL1 has TG0 = 64 KiB (0b01),
\* EPD0 = 0 (TTBR0 walks enabled) and EPD1 = 1 (TTBR1 walks disabled), and
\* ID_AA64MMFR0_EL1.TGran64 reports that granule as supported.
C17_LowRangeOnly ==
    M_BIT \in SCTLR_EL1 =>
        /\ read(TCR_EL1, 14, 2) = {0}
        /\ 7 \notin TCR_EL1
        /\ 23 \in TCR_EL1
        /\ ~GranuleUnsupported

C17_Witness ==
    /\ M_BIT \in SCTLR_EL1
    /\ 7 \in entry[4]
    /\ 23 \notin entry[4]
    /\ call = "enable_mmu_and_caching"
    /\ pc = "enable_ok"

\* C18: while the M bit is set, TTBR0_EL1 is the table base given to the
\* enable call that set it (the one that returns Ok), and no step of any
\* call changes MAIR_EL1, TTBR0_EL1 or TCR_EL1.
C18_ConfigurationStable ==
    [][(M_BIT \in SCTLR_EL1) =>
          /\ TTBR0_EL1 = (IF hist.ok THEN hist.base
                          ELSE phys_tables_base_addr)
          /\ MAIR_EL1' = MAIR_EL1
          /\ TTBR0_EL1' = TTBR0_EL1
          /\ TCR_EL1' = TCR_EL1]_vars

C18_Witness ==
    /\ hist.ok
    /\ hist.base = Base2
    /\ TTBR0_EL1 = Base2
    /\ hist.err = "AlreadyEnabled"
    /\ hist.errBase = Base1
    /\ call = "try_virt_to_phys"
    /\ ret.tag = "Ok"

\* C19: from the SCTLR_EL1 update of an enable call on, SCTLR_EL1 is its
\* value at the call with M, C and I set and every other bit as it was, and
\* MAIR_EL1 and TCR_EL1 hold nothing of their former contents: MAIR_EL1 is
\* 0xFF04 and TCR_EL1 above T0SZ is the programmed configuration.
C19_SctlrFrame ==
    (call = "enable_mmu_and_caching"
        /\ (pc \in {"enable_isb2", "enable_ok"} \/ ret.tag = "Ok")) =>
        /\ SCTLR_EL1 = entry[1] \cup {0, 2, 12}
        /\ MAIR_EL1 = {2} \cup (8 .. 15)
        /\ TCR_EL1 \ (0 .. 5) = {8, 10, 12, 13, 14, 23, 33}

C19_Witness ==
    /\ call = "enable_mmu_and_caching"
    /\ ret.tag = "Ok"
    /\ entry[1] = {11, 20, 22, 23, 28, 29}
    /\ entry[2] = {0, 18, 63}
    /\ entry[4] = {1, 7, 22, 37, 40}
    /\ SCTLR_EL1 = {0, 2, 11, 12, 20, 22, 23, 28, 29}

====
